---- MODULE Spec2Model ----
(***************************************************************************)
(* State-machine model of the tutorial scripts of SQL-via-Alchemy:         *)
(*   tutorial/00_installation/sqla_introduction.py   (Spec)                *)
(*   tutorial/00_intro/aiosqlite_example.py           (SpecAux)            *)
(*   tutorial/02_table_primer_alembic/.../27fc5c72440c_create_users_table  *)
(*                                                    (SpecAux)            *)
(*                                                                         *)
(* The scripts are sequences of awaited library calls.  Each awaited call  *)
(* is one action; its outcome is either the call's result or an exception  *)
(* (a statement error the database reports, or the task being cancelled    *)
(* at the await).  The database is SQLite reached through Python's sqlite3 *)
(* driver in its default (legacy) transaction mode: the driver opens a     *)
(* transaction implicitly before INSERT/UPDATE/DELETE/REPLACE only, so a   *)
(* CREATE TABLE issued while no transaction is open is applied to the      *)
(* database at once, and a rollback afterwards does not undo it.           *)
(***************************************************************************)
EXTENDS Integers, Sequences, FiniteSets, TLC

VARIABLES
    version,    \* sqla.__version__ : sequence of dot-separated items, each a sequence of characters
    dbfile,     \* argument given to get_sqlite_engine for this run
    pc,         \* position of the process in sqla_introduction.py
    err,        \* exception propagating (NoErr when none)
    runs,       \* number of process runs started so far
    engine,     \* [state, loc] : the AsyncEngine of this run
    created,    \* engines created in this run
    disposed,   \* engine.dispose() calls completed in this run
    stores,     \* location -> committed database content
    work,       \* database content as seen by the open connection (committed + pending)
    inTx,       \* the driver has an open transaction on the connection
    conn,       \* connection bound by the latest `async with ... as conn` (0: none yet)
    opened,     \* connections acquired in this run
    relCount,   \* connection -> number of times it was released
    usedAfterRelease, \* a statement was executed on a released connection
    snap,       \* content at the last commit() of the scope (at acquisition before any)
    result,     \* rows fetched by the SELECT of create_coords_table
    hello,      \* row fetched by hello_sql
    wroteMem,   \* some earlier write went through a handle built with no dbfile
    schema,     \* migration environment: table name -> columns (or Absent)
    before,     \* schema when the last upgrade() started
    migLog,     \* migration operations run so far: <<[op, ok], ...>>
    apc,        \* position of aiosqlite_example.main
    adb,        \* aiosqlite_example: content of the connection's in-memory database
    aconn,      \* aiosqlite_example: [opens, closes] of connections
    acur,       \* aiosqlite_example: cursor [state, rows, pos]
    aout,       \* aiosqlite_example: rows printed
    aerr,       \* aiosqlite_example: exception propagating
    alate       \* aiosqlite_example: a statement ran on the closed connection

mainVars == <<version, dbfile, pc, err, runs, engine, created, disposed, stores, work,
              inTx, conn, opened, relCount, usedAfterRelease, snap, result, hello, wroteMem>>
migVars == <<schema, before, migLog>>
aioVars == <<apc, adb, aconn, acur, aout, aerr, alate>>
vars == <<mainVars, migVars, aioVars>>

----------------------------------------------------------------------------
(* Bounds *)

MaxRuns == 2        \* process runs of sqla_introduction.py
MaxMigOps == 3      \* upgrade()/downgrade() calls in the migration environment

----------------------------------------------------------------------------
(* Values *)

None == "<None>"
NoErr == "none"

\* A number literal: kind (Python int or float) and value in tenths.
IntLit(n) == [k |-> "int", v |-> 10 * n]
RealLit(t) == [k |-> "real", v |-> t]

\* Python's == on numbers compares values: 0 == 0.0.
NumEq(a, b) == a.v = b.v

\* Column affinity REAL of `x float, y float`: an integer is stored as a float.
Affinity(a) == [k |-> "real", v |-> a.v]

BindRow(m) == [x |-> Affinity(m.x), y |-> Affinity(m.y)]

BATCH == << [x |-> IntLit(0),     y |-> IntLit(0)],
            [x |-> RealLit(12),   y |-> RealLit(21)],
            [x |-> RealLit(-21),  y |-> RealLit(42)],
            [x |-> IntLit(-5),    y |-> IntLit(-9)],
            [x |-> RealLit(99),   y |-> RealLit(-132)] >>

SINGLE == << [x |-> IntLit(100), y |-> IntLit(200)] >>

EmptyDb == [has |-> FALSE, rows |-> <<>>]

----------------------------------------------------------------------------
(* Version check at import *)

Digits == <<"0", "1", "2", "3", "4", "5", "6", "7", "8", "9">>

IsDigit(c) == \E i \in 1..10 : Digits[i] = c

DigitVal(c) == (CHOOSE i \in 1..10 : Digits[i] = c) - 1

\* int(item) over the characters of item: [ok |-> FALSE] stands for ValueError.
RECURSIVE IntOf(_, _)
IntOf(item, acc) ==
    IF item = <<>> THEN [ok |-> TRUE, val |-> acc]
    ELSE IF ~IsDigit(Head(item)) THEN [ok |-> FALSE, val |-> 0]
    ELSE IntOf(Tail(item), 10 * acc + DigitVal(Head(item)))

ParseInt(item) == IF item = <<>> THEN [ok |-> FALSE, val |-> 0] ELSE IntOf(item, 0)

\* tuple(int(item) for item in sqla.__version__.split(".")); ok = FALSE: ValueError.
SqlalchemyVersion(v) ==
    [ok  |-> \A i \in 1..Len(v) : ParseInt(v[i]).ok,
     tup |-> [i \in 1..Len(v) |-> ParseInt(v[i]).val]]

\* Python's < on tuples of ints: lexicographic, a proper prefix is smaller.
RECURSIVE TupleLess(_, _)
TupleLess(a, b) ==
    IF b = <<>> THEN FALSE
    ELSE IF a = <<>> THEN TRUE
    ELSE IF Head(a) # Head(b) THEN Head(a) < Head(b)
    ELSE TupleLess(Tail(a), Tail(b))

MIN_VERSION == <<2, 0, 0>>

\* Released versions of the library used as installed versions.
V_1_4_49  == << <<"1">>, <<"4">>, <<"4", "9">> >>
V_1_4_0b1 == << <<"1">>, <<"4">>, <<"0", "b", "1">> >>
V_2_0_0   == << <<"2">>, <<"0">>, <<"0">> >>
V_2_0_23  == << <<"2">>, <<"0">>, <<"2", "3">> >>
V_2_1_0b1 == << <<"2">>, <<"1">>, <<"0", "b", "1">> >>

Versions == {V_1_4_49, V_1_4_0b1, V_2_0_0, V_2_0_23, V_2_1_0b1}

----------------------------------------------------------------------------
(* get_sqlite_engine *)

DbFiles == {None, "", "coords.db"}

Truthy(d) == d # None /\ d # ""

Str(d) == IF d = None THEN "None" ELSE d

MEMORY == ":memory:"

\* Variant: the default is forgotten, the location is always str(dbfile).
DbLoc_AlwaysStr(d) == Str(d)

\* db_loc = str(dbfile) if dbfile else ":memory:"
DbLoc(d) == IF Truthy(d) THEN Str(d) ELSE MEMORY

Locations == {MEMORY, "", "coords.db", "None"}

\* sqlite+aiosqlite:///<loc> names a private in-memory database when loc is
\* ":memory:" or empty; the engine then keeps one connection for its whole life.
IsMemory(loc) == loc \in {MEMORY, ""}

Store == stores[engine.loc]

\* Content of every in-memory database is lost with the connection that owns it.
DropMemory(st) == [l \in Locations |-> IF IsMemory(l) THEN EmptyDb ELSE st[l]]

----------------------------------------------------------------------------
(* Statement execution *)

\* Variant: each new row is put in front of the rows already there.
RECURSIVE ExecuteMany_Prepend(_, _)
ExecuteMany_Prepend(rows, params) ==
    IF params = <<>> THEN rows
    ELSE ExecuteMany_Prepend(<<BindRow(Head(params))>> \o rows, Tail(params))

\* One statement applied once per parameter mapping, in list order.
RECURSIVE ExecuteMany(_, _)
ExecuteMany(rows, params) ==
    IF params = <<>> THEN rows
    ELSE ExecuteMany(Append(rows, BindRow(Head(params))), Tail(params))

\* Exceptions an awaited call may raise besides the errors the statement itself has.
Faults == {"StatementError", "CancelledError"}
AcquireFaults == {"ConnectionError", "CancelledError"}

\* Variant: the connection is released only when the block ended normally.
AsyncExit_OnSuccessOnly(rc, c, exc) == IF exc = NoErr THEN [rc EXCEPT ![c] = @ + 1] ELSE rc

\* AsyncConnection.__aexit__(exc_type, ...): the connection is closed, that is
\* returned to the pool, whatever exception leaves the block.
AsyncExit(rc, c, exc) == [rc EXCEPT ![c] = @ + 1]

\* Variant: the scope behaves as engine.connect(), nothing is committed at its end.
TxnExit_AlwaysRollback(committed, pending, exc) == committed

\* engine.begin().__aexit__: commit when the block ended normally, else rollback.
TxnExit(committed, pending, exc) == IF exc = NoErr THEN pending ELSE committed

ConnIds == 1..4

NoEngine == [state |-> "none", loc |-> MEMORY]

NoRelease == [c \in ConnIds |-> 0]

----------------------------------------------------------------------------
(* sqla_introduction.py *)

MainFresh ==
    /\ err = NoErr
    /\ runs = 1
    /\ engine = NoEngine
    /\ created = 0
    /\ disposed = 0
    /\ stores = [l \in Locations |-> EmptyDb]
    /\ work = EmptyDb
    /\ inTx = FALSE
    /\ conn = 0
    /\ opened = 0
    /\ relCount = NoRelease
    /\ usedAfterRelease = FALSE
    /\ snap = EmptyDb
    /\ result = <<>>
    /\ hello = <<>>
    /\ wroteMem = FALSE

\* The interpreter starts the script with some released version installed.  main
\* calls get_sqlite_engine() with no dbfile (line 146); the other values of dbfile
\* are those a caller of get_sqlite_engine may pass: an empty string and a file.
InitMain ==
    /\ version \in Versions
    /\ dbfile \in DbFiles
    /\ pc = "import"
    /\ MainFresh

\* The script is not run.
IdleMain ==
    /\ version = V_2_0_0
    /\ dbfile = None
    /\ pc = "off"
    /\ MainFresh

\* Lines 17-21: the version tuple is built, then compared with (2, 0, 0).
ImportModule ==
    /\ pc = "import"
    /\ LET sv == SqlalchemyVersion(version) IN
         IF ~sv.ok THEN err' = "ValueError" /\ pc' = "crashed"
         ELSE IF TupleLess(sv.tup, MIN_VERSION) THEN err' = "ImportError" /\ pc' = "crashed"
         ELSE err' = err /\ pc' = "main"
    /\ UNCHANGED <<version, dbfile, runs, engine, created, disposed, stores, work, inTx,
                   conn, opened, relCount, usedAfterRelease, snap, result, hello, wroteMem>>
    /\ UNCHANGED <<migVars, aioVars>>

\* Line 146: engine = get_sqlite_engine(...)
GetSqliteEngine ==
    /\ pc = "main"
    /\ engine' = [state |-> "live", loc |-> DbLoc(dbfile)]
    /\ created' = created + 1
    /\ pc' = "h_connect"
    /\ UNCHANGED <<version, dbfile, err, runs, disposed, stores, work, inTx,
                   conn, opened, relCount, usedAfterRelease, snap, result, hello, wroteMem>>
    /\ UNCHANGED <<migVars, aioVars>>

\* `async with engine.connect() as conn` / `engine.begin() as transaction`: entry.
Acquire(at, next) ==
    /\ pc = at
    /\ \/ /\ opened' = opened + 1
          /\ conn' = opened + 1
          /\ work' = Store
          /\ inTx' = FALSE
          /\ snap' = Store
          /\ pc' = next
          /\ UNCHANGED err
       \/ /\ \E f \in AcquireFaults : err' = f
          /\ pc' = "crashed"
          /\ UNCHANGED <<opened, conn, work, inTx, snap>>
    /\ UNCHANGED <<version, dbfile, runs, engine, created, disposed, stores,
                   relCount, usedAfterRelease, result, hello, wroteMem>>
    /\ UNCHANGED <<migVars, aioVars>>

\* Every call on the connection records whether the connection was already released.
Use == usedAfterRelease' = (usedAfterRelease \/ relCount[conn] > 0)

\* `async with engine.connect()`: exit.  Pending writes are rolled back, the
\* connection is released, an exception keeps propagating.
ConnectExit(at, next) ==
    /\ pc = at
    /\ work' = Store
    /\ inTx' = FALSE
    /\ relCount' = AsyncExit(relCount, conn, err)
    /\ pc' = IF err = NoErr THEN next ELSE "crashed"
    /\ UNCHANGED <<version, dbfile, err, runs, engine, created, disposed, stores,
                   conn, opened, usedAfterRelease, snap, result, hello, wroteMem>>
    /\ UNCHANGED <<migVars, aioVars>>

\* INSERT INTO Coords (x, y) VALUES (:x, :y) with a list of mappings.  The driver
\* opens a transaction before the first row; a fault may stop it after k rows.
Insert(at, params, next, exit) ==
    /\ pc = at
    /\ Use
    /\ IF ~work.has
       THEN err' = "StatementError" /\ pc' = exit /\ UNCHANGED <<work, inTx>>
       ELSE \E k \in 0..Len(params) :
              /\ work' = [work EXCEPT !.rows = ExecuteMany(@, SubSeq(params, 1, k))]
              /\ inTx' = TRUE
              /\ IF k = Len(params)
                 THEN pc' = next /\ UNCHANGED err
                 ELSE pc' = exit /\ \E f \in Faults : err' = f
    /\ UNCHANGED <<version, dbfile, runs, engine, created, disposed, stores,
                   conn, opened, relCount, snap, result, hello, wroteMem>>
    /\ UNCHANGED <<migVars, aioVars>>

\* hello_sql, lines 81-85
HelloConnect == Acquire("h_connect", "h_exec")

HelloExecute ==
    /\ pc = "h_exec"
    /\ Use
    /\ \/ hello' = <<"Hello, SQLAlchemy!">> /\ UNCHANGED err
       \/ (\E f \in Faults : err' = f) /\ UNCHANGED hello
    /\ pc' = "h_exit"
    /\ UNCHANGED <<version, dbfile, runs, engine, created, disposed, stores, work, inTx,
                   conn, opened, relCount, snap, result, wroteMem>>
    /\ UNCHANGED <<migVars, aioVars>>

HelloExit == ConnectExit("h_exit", "c1_connect")

\* create_coords_table, first scope, lines 104-117
CoordsConnect == Acquire("c1_connect", "c1_create")

\* CREATE TABLE Coords (x float, y float): fails when the table exists; with no
\* transaction open on the connection the driver applies it to the database at once.
CoordsCreate ==
    /\ pc = "c1_create"
    /\ Use
    /\ IF work.has
       THEN err' = "StatementError" /\ pc' = "c1_exit" /\ UNCHANGED <<work, stores, wroteMem>>
       ELSE \/ /\ work' = [has |-> TRUE, rows |-> <<>>]
               /\ stores' = IF inTx THEN stores ELSE [stores EXCEPT ![engine.loc] = work']
               /\ wroteMem' = (wroteMem \/ (~inTx /\ dbfile = None))
               /\ pc' = "c1_insert"
               /\ UNCHANGED err
            \/ /\ \E f \in Faults : err' = f
               /\ pc' = "c1_exit"
               /\ UNCHANGED <<work, stores, wroteMem>>
    /\ UNCHANGED <<version, dbfile, runs, engine, created, disposed, inTx,
                   conn, opened, relCount, snap, result, hello>>
    /\ UNCHANGED <<migVars, aioVars>>

CoordsInsert == Insert("c1_insert", BATCH, "c1_commit", "c1_exit")

\* await conn.commit()
CoordsCommit ==
    /\ pc = "c1_commit"
    /\ Use
    /\ \/ /\ stores' = [stores EXCEPT ![engine.loc] = work]
          /\ inTx' = FALSE
          /\ snap' = work
          /\ wroteMem' = (wroteMem \/ dbfile = None)
          /\ UNCHANGED err
       \/ /\ \E f \in Faults : err' = f
          /\ UNCHANGED <<stores, inTx, snap, wroteMem>>
    /\ pc' = "c1_exit"
    /\ UNCHANGED <<version, dbfile, runs, engine, created, disposed, work,
                   conn, opened, relCount, result, hello>>
    /\ UNCHANGED <<migVars, aioVars>>

CoordsExit == ConnectExit("c1_exit", "c2_begin")

\* second scope, lines 120-126
CoordsBegin == Acquire("c2_begin", "c2_insert")

CoordsBeginInsert == Insert("c2_insert", SINGLE, "c2_exit", "c2_exit")

\* engine.begin(): exit.  Commit after a normal end of the block (the commit
\* itself may fail), rollback after an exception; then the connection is released.
CoordsBeginExit ==
    /\ pc = "c2_exit"
    /\ \E o \in (IF err = NoErr THEN {NoErr} \cup Faults ELSE {err}) :
         /\ err' = o
         /\ stores' = [stores EXCEPT ![engine.loc] = TxnExit(Store, work, o)]
         /\ work' = TxnExit(Store, work, o)
         /\ relCount' = AsyncExit(relCount, conn, o)
         /\ wroteMem' = (wroteMem \/ (o = NoErr /\ dbfile = None))
         /\ pc' = IF o = NoErr THEN "c3_connect" ELSE "crashed"
    /\ inTx' = FALSE
    /\ UNCHANGED <<version, dbfile, runs, engine, created, disposed,
                   conn, opened, usedAfterRelease, snap, result, hello>>
    /\ UNCHANGED <<migVars, aioVars>>

\* third scope, lines 128-133
CoordsReconnect == Acquire("c3_connect", "c3_select")

\* SELECT x, y FROM Coords
CoordsSelect ==
    /\ pc = "c3_select"
    /\ Use
    /\ IF ~work.has
       THEN err' = "StatementError" /\ UNCHANGED result
       ELSE \/ result' = work.rows /\ UNCHANGED err
            \/ (\E f \in Faults : err' = f) /\ UNCHANGED result
    /\ pc' = "c3_exit"
    /\ UNCHANGED <<version, dbfile, runs, engine, created, disposed, stores, work, inTx,
                   conn, opened, relCount, snap, hello, wroteMem>>
    /\ UNCHANGED <<migVars, aioVars>>

CoordsSelectExit == ConnectExit("c3_exit", "dispose")

\* Line 155: await engine.dispose().  The pool's connections are closed; an
\* in-memory database goes with its connection.
Dispose ==
    /\ pc = "dispose"
    /\ engine' = [engine EXCEPT !.state = "disposed"]
    /\ disposed' = disposed + 1
    /\ stores' = IF IsMemory(engine.loc) THEN [stores EXCEPT ![engine.loc] = EmptyDb] ELSE stores
    /\ pc' = "done"
    /\ UNCHANGED <<version, dbfile, err, runs, created, work, inTx,
                   conn, opened, relCount, usedAfterRelease, snap, result, hello, wroteMem>>
    /\ UNCHANGED <<migVars, aioVars>>

\* asyncio.run(main()) returns or the exception reaches the process boundary.
ProcessExit ==
    /\ pc \in {"done", "crashed"}
    /\ pc' = "exited"
    /\ stores' = DropMemory(stores)
    /\ UNCHANGED <<version, dbfile, err, runs, engine, created, disposed, work, inTx,
                   conn, opened, relCount, usedAfterRelease, snap, result, hello, wroteMem>>
    /\ UNCHANGED <<migVars, aioVars>>

\* The script is started again; files written by earlier runs are still there.
Rerun ==
    /\ pc = "exited"
    /\ runs < MaxRuns
    /\ runs' = runs + 1
    /\ dbfile' \in DbFiles
    /\ pc' = "import"
    /\ err' = NoErr
    /\ engine' = NoEngine
    /\ created' = 0
    /\ disposed' = 0
    /\ work' = EmptyDb
    /\ inTx' = FALSE
    /\ conn' = 0
    /\ opened' = 0
    /\ relCount' = NoRelease
    /\ usedAfterRelease' = FALSE
    /\ snap' = EmptyDb
    /\ result' = <<>>
    /\ hello' = <<>>
    /\ UNCHANGED <<version, stores, wroteMem>>
    /\ UNCHANGED <<migVars, aioVars>>

NextMain ==
    \/ ImportModule
    \/ GetSqliteEngine
    \/ HelloConnect
    \/ HelloExecute
    \/ HelloExit
    \/ CoordsConnect
    \/ CoordsCreate
    \/ CoordsInsert
    \/ CoordsCommit
    \/ CoordsExit
    \/ CoordsBegin
    \/ CoordsBeginInsert
    \/ CoordsBeginExit
    \/ CoordsReconnect
    \/ CoordsSelect
    \/ CoordsSelectExit
    \/ Dispose
    \/ ProcessExit
    \/ Rerun

----------------------------------------------------------------------------
(* migration revision 27fc5c72440c *)

Absent == <<>>

USERS == "users"

USERS_COLUMNS == << [name |-> "id", type |-> "Integer", primary_key |-> TRUE],
                    [name |-> "full name", type |-> "Unicode(100)", primary_key |-> FALSE] >>

\* A users table made by something else than this revision.
LEGACY_COLUMNS == << [name |-> "login", type |-> "Unicode(30)", primary_key |-> TRUE] >>

OTHER_COLUMNS == << [name |-> "id", type |-> "Integer", primary_key |-> TRUE] >>

TableNames == {USERS, "playlists", "Coords"}

Schemas ==
    { s \in [TableNames -> {Absent, USERS_COLUMNS, LEGACY_COLUMNS, OTHER_COLUMNS}] :
        /\ s[USERS] \in {Absent, USERS_COLUMNS, LEGACY_COLUMNS}
        /\ \A t \in TableNames \ {USERS} : s[t] \in {Absent, OTHER_COLUMNS} }

Tables(s) == {t \in TableNames : s[t] # Absent}

\* op.create_table(name, *columns): an error when the table exists.
CanCreate(s, name) == s[name] = Absent

CreateTable(s, name, columns) == [s EXCEPT ![name] = columns]

\* op.drop_table(name): an error when there is no such table.
CanDrop(s, name) == s[name] # Absent

\* Variant: the table is left in place.
DropTable_Keeps(s, name) == s

DropTable(s, name) == [s EXCEPT ![name] = Absent]

InitMig ==
    /\ schema \in Schemas
    /\ before = schema
    /\ migLog = <<>>

IdleMig ==
    /\ schema = [t \in TableNames |-> Absent]
    /\ before = schema
    /\ migLog = <<>>

\* upgrade(), lines 24-29
Upgrade ==
    /\ Len(migLog) < MaxMigOps
    /\ before' = schema
    /\ IF CanCreate(schema, USERS)
       THEN /\ schema' = CreateTable(schema, USERS, USERS_COLUMNS)
            /\ migLog' = Append(migLog, [op |-> "upgrade", ok |-> TRUE])
       ELSE /\ schema' = schema
            /\ migLog' = Append(migLog, [op |-> "upgrade", ok |-> FALSE])
    /\ UNCHANGED <<mainVars, aioVars>>

\* downgrade(), lines 32-35
Downgrade ==
    /\ Len(migLog) < MaxMigOps
    /\ IF CanDrop(schema, USERS)
       THEN /\ schema' = DropTable(schema, USERS)
            /\ migLog' = Append(migLog, [op |-> "downgrade", ok |-> TRUE])
       ELSE /\ schema' = schema
            /\ migLog' = Append(migLog, [op |-> "downgrade", ok |-> FALSE])
    /\ UNCHANGED before
    /\ UNCHANGED <<mainVars, aioVars>>

NextMig == Upgrade \/ Downgrade

----------------------------------------------------------------------------
(* aiosqlite_example.py *)

URL == ":memory:"

\* VALUES ('SQL Rocks!'), ('SQLite as well')
INTRO_VALUES == <<"SQL Rocks!", "SQLite as well">>

RECURSIVE MaxId(_)
MaxId(rows) == IF rows = <<>> THEN 0
               ELSE LET m == MaxId(Tail(rows)) IN IF Head(rows).id > m THEN Head(rows).id ELSE m

\* Variant: the values are inserted last first.
RECURSIVE InsertValues_Reversed(_, _)
InsertValues_Reversed(rows, names) ==
    IF names = <<>> THEN rows
    ELSE InsertValues_Reversed(
             Append(rows, [id |-> MaxId(rows) + 1, name |-> names[Len(names)]]),
             SubSeq(names, 1, Len(names) - 1))

\* INSERT INTO playlists (name) VALUES ...: id INTEGER PRIMARY KEY takes the next rowid.
RECURSIVE InsertValues(_, _)
InsertValues(rows, names) ==
    IF names = <<>> THEN rows
    ELSE InsertValues(Append(rows, [id |-> MaxId(rows) + 1, name |-> Head(names)]), Tail(names))

NoTable == [has |-> FALSE, rows |-> <<>>]

\* CREATE TABLE IF NOT EXISTS playlists (...)
CreateIfNotExists(db) == IF db.has THEN db ELSE [has |-> TRUE, rows |-> <<>>]

\* The first k statements of INTRO_SQL_SCRIPT applied to db.
ScriptPrefix(db, k) ==
    IF k = 0 THEN db
    ELSE IF k = 1 THEN CreateIfNotExists(db)
    ELSE [CreateIfNotExists(db) EXCEPT !.rows = InsertValues(@, INTRO_VALUES)]

NoCursor == [state |-> "none", rows |-> <<>>, pos |-> 0]

AioFaults == {"OperationalError", "CancelledError"}

InitAio ==
    /\ apc = "connect"
    /\ adb = NoTable
    /\ aconn = [opens |-> 0, closes |-> 0]
    /\ acur = NoCursor
    /\ aout = <<>>
    /\ aerr = NoErr
    /\ alate = FALSE

IdleAio ==
    /\ apc = "off"
    /\ adb = NoTable
    /\ aconn = [opens |-> 0, closes |-> 0]
    /\ acur = NoCursor
    /\ aout = <<>>
    /\ aerr = NoErr
    /\ alate = FALSE

AioUse == alate' = (alate \/ aconn.closes > 0)

\* Line 23: db = await aiosqlite.connect(URL)
AioConnect ==
    /\ apc = "connect"
    /\ \/ /\ aconn' = [aconn EXCEPT !.opens = @ + 1]
          /\ adb' = NoTable
          /\ apc' = "script"
          /\ UNCHANGED aerr
       \/ /\ \E f \in AioFaults : aerr' = f
          /\ apc' = "crashed"
          /\ UNCHANGED <<aconn, adb>>
    /\ UNCHANGED <<acur, aout, alate>>
    /\ UNCHANGED <<mainVars, migVars>>

\* Line 25: await db.executescript(INTRO_SQL_SCRIPT).  The statements run one
\* after the other; an error stops the script after k of them.
AioExecuteScript ==
    /\ apc = "script"
    /\ AioUse
    /\ \/ /\ adb' = ScriptPrefix(adb, 2)
          /\ apc' = "select"
          /\ UNCHANGED aerr
       \/ /\ \E k \in 0..1 : adb' = ScriptPrefix(adb, k)
          /\ \E f \in AioFaults : aerr' = f
          /\ apc' = "crashed"
    /\ UNCHANGED <<aconn, acur, aout>>
    /\ UNCHANGED <<mainVars, migVars>>

\* Line 27: async with db.execute("SELECT * FROM playlists;") as cursor
AioSelect ==
    /\ apc = "select"
    /\ AioUse
    /\ IF ~adb.has
       THEN aerr' = "OperationalError" /\ apc' = "crashed" /\ UNCHANGED acur
       ELSE \/ /\ acur' = [state |-> "open", rows |-> adb.rows, pos |-> 0]
               /\ apc' = "iter"
               /\ UNCHANGED aerr
            \/ /\ \E f \in AioFaults : aerr' = f
               /\ apc' = "crashed"
               /\ UNCHANGED acur
    /\ UNCHANGED <<adb, aconn, aout>>
    /\ UNCHANGED <<mainVars, migVars>>

\* Lines 28-29: async for row in cursor: print(row).  The cursor is single-pass.
AioFetch ==
    /\ apc = "iter"
    /\ AioUse
    /\ \/ /\ acur.pos < Len(acur.rows)
          /\ acur' = [acur EXCEPT !.pos = @ + 1]
          /\ aout' = Append(aout, acur.rows[acur.pos + 1])
          /\ UNCHANGED <<apc, aerr>>
       \/ /\ acur.pos = Len(acur.rows)
          /\ apc' = "cursor_exit"
          /\ UNCHANGED <<acur, aout, aerr>>
       \/ /\ \E f \in AioFaults : aerr' = f
          /\ apc' = "cursor_exit"
          /\ UNCHANGED <<acur, aout>>
    /\ UNCHANGED <<adb, aconn>>
    /\ UNCHANGED <<mainVars, migVars>>

\* End of the `async with` block of the cursor: the cursor is closed on every exit.
AioCursorExit ==
    /\ apc = "cursor_exit"
    /\ acur' = [acur EXCEPT !.state = "closed"]
    /\ apc' = IF aerr = NoErr THEN "close" ELSE "crashed"
    /\ UNCHANGED <<adb, aconn, aout, aerr, alate>>
    /\ UNCHANGED <<mainVars, migVars>>

\* Line 32: await db.close(), reached only when nothing above raised.
AioClose ==
    /\ apc = "close"
    /\ aconn' = [aconn EXCEPT !.closes = @ + 1]
    /\ adb' = NoTable
    /\ apc' = "done"
    /\ UNCHANGED <<acur, aout, aerr, alate>>
    /\ UNCHANGED <<mainVars, migVars>>

NextAio ==
    \/ AioConnect
    \/ AioExecuteScript
    \/ AioSelect
    \/ AioFetch
    \/ AioCursorExit
    \/ AioClose

----------------------------------------------------------------------------
(* Specifications *)

\* sqla_introduction.py run as a script, up to MaxRuns times.
Init == InitMain /\ IdleMig /\ IdleAio

Next == NextMain

Spec == Init /\ [][Next]_vars

\* The migration revision applied to a schema, and aiosqlite_example.py run as a
\* script; the two are independent processes.
InitAux == IdleMain /\ InitMig /\ InitAio

NextAux == NextMig \/ NextAio

SpecAux == InitAux /\ [][NextAux]_vars

----------------------------------------------------------------------------
(* Properties *)

INSERTED == BATCH \o SINGLE

InScope == {"h_exec", "h_exit", "c1_create", "c1_insert", "c1_commit", "c1_exit",
            "c2_insert", "c2_exit", "c3_select", "c3_exit"}

\* C1: once create_coords_table has created the table, inserted and committed the
\* 5 rows, inserted (100, 200) in the engine.begin() scope and read the table in
\* the third scope, the rows read are exactly the 6 inserted pairs, each equal
\* to its inserted (x, y), none lost and none twice.
C1_SixRowsRead ==
    (pc \in {"c3_exit", "dispose", "done"} /\ err = NoErr) =>
        /\ Len(result) = Len(INSERTED)
        /\ Len(result) = 6
        /\ \A i \in 1..Len(result) :
             NumEq(result[i].x, INSERTED[i].x) /\ NumEq(result[i].y, INSERTED[i].y)

C1_Witness ==
    /\ dbfile = None
    /\ pc = "c3_exit"
    /\ err = NoErr
    /\ opened = 4
    /\ Len(result) = 6
    /\ result[1].x.k = "real"
    /\ result[6].y.v = 2000

\* C2: when a scope opened with engine.connect() ends, the database holds what it
\* held at the scope's last commit() (at its start when it never committed):
\* every write made after that is rolled back, everything before it is kept.
C2_UncommittedWritesDiscarded ==
    [][(pc \in {"h_exit", "c1_exit", "c3_exit"} /\ pc' # pc) => stores'[engine.loc] = snap]_vars

\* C3: every connection acquired by hello_sql and create_coords_table is released
\* exactly once when its scope is left, on the normal path and on every
\* exception, and no call is made on a connection after its release.
C3_ReleasedExactlyOnce ==
    /\ ~usedAfterRelease
    /\ \A c \in ConnIds :
         /\ relCount[c] <= 1
         /\ c > opened => relCount[c] = 0
         /\ (c <= opened /\ (c < conn \/ pc \notin InScope)) => relCount[c] = 1
         /\ (c = conn /\ pc \in InScope) => relCount[c] = 0

C3_Witness ==
    /\ pc = "crashed"
    /\ err = "CancelledError"
    /\ opened = 3
    /\ conn = 3
    /\ relCount[3] = 1

\* C4: when the process of a run of main ends, the engine was created once and
\* disposed exactly once, whether or not hello_sql or create_coords_table raised.
C4_DisposedExactlyOnce ==
    (pc = "exited" /\ created > 0) => (created = 1 /\ disposed = 1)

\* C5: after a statement failed inside a connection scope the connection is
\* released, nothing was committed after the failure, and the database holds what
\* it held at the connection's last commit: later writes are rolled back,
\* earlier committed ones are kept.
C5_FailureRollsBack ==
    (pc = "crashed" /\ err = "StatementError" /\ conn # 0) =>
        /\ relCount[conn] = 1
        /\ ~inTx
        /\ Store = snap

RowsAdded(old, new, params) ==
    /\ Len(new) = Len(old) + Len(params)
    /\ SubSeq(new, 1, Len(old)) = old
    /\ \A i \in 1..Len(params) :
         /\ new[Len(old) + i].x = Affinity(params[i].x)
         /\ new[Len(old) + i].y = Affinity(params[i].y)

\* C6: an INSERT executed with a list of N parameter mappings that completes adds
\* exactly N rows after the rows already in the table, the i-th new row holding
\* the values of the i-th mapping.
C6_BatchInsertInOrder ==
    [][ /\ (pc = "c1_insert" /\ pc' = "c1_commit") => RowsAdded(work.rows, work'.rows, BATCH)
        /\ (pc = "c2_insert" /\ pc' = "c2_exit" /\ err' = NoErr)
              => RowsAdded(work.rows, work'.rows, SINGLE) ]_vars

C6_Witness ==
    /\ pc = "c2_exit"
    /\ err = NoErr
    /\ Len(work.rows) = 6
    /\ work.rows[2] = [x |-> RealLit(12), y |-> RealLit(21)]
    /\ work.rows[6].x.v = 1000

\* The release segment of a version item: its leading digits ("0b1" is release 0).
RECURSIVE LeadingInt(_, _)
LeadingInt(item, acc) ==
    IF item = <<>> \/ ~IsDigit(Head(item)) THEN acc
    ELSE LeadingInt(Tail(item), 10 * acc + DigitVal(Head(item)))

Release(v) == [i \in 1..Len(v) |-> LeadingInt(v[i], 0)]

BelowMinimum(v) == TupleLess(Release(v), MIN_VERSION)

\* C7: once the module has been imported, an installed version below (2, 0, 0)
\* has raised the version error (ImportError) with no engine created, and a
\* version at or above (2, 0, 0) has raised nothing at import.
C7_VersionCheck ==
    (pc \notin {"import", "off"}) =>
        /\ BelowMinimum(version) => (err = "ImportError" /\ created = 0 /\ opened = 0)
        /\ ~BelowMinimum(version) => err \notin {"ImportError", "ValueError"}

\* C8: a handle built with no dbfile starts on an empty database, whatever was
\* written through earlier handles built with no dbfile, and once it is disposed
\* its database is empty again: no Coords table, no rows.
C8_MemoryNotDurable ==
    (dbfile = None /\ pc \in {"h_connect", "done", "exited"}) =>
        /\ Store = EmptyDb
        /\ \A l \in Locations : IsMemory(l) => stores[l] = EmptyDb

C8_Witness ==
    /\ runs = 2
    /\ wroteMem
    /\ dbfile = None
    /\ engine.state = "live"
    /\ pc = "h_connect"

UpgradeOk == [op |-> "upgrade", ok |-> TRUE]
DowngradeOk == [op |-> "downgrade", ok |-> TRUE]

\* C9: upgrade() adds the table users with the columns id (integer primary key)
\* and "full name" and changes no other table; downgrade() run right after it
\* drops that table, leaving the schema that upgrade() started from.
C9_UpgradeDowngradeRoundTrip ==
    LET n == Len(migLog) IN
        /\ (n >= 1 /\ migLog[n] = UpgradeOk) =>
              /\ before[USERS] = Absent
              /\ schema[USERS] = USERS_COLUMNS
              /\ \A t \in TableNames \ {USERS} : schema[t] = before[t]
        /\ (n >= 2 /\ migLog[n] = DowngradeOk /\ migLog[n - 1] = UpgradeOk) =>
              /\ Tables(schema) = Tables(before)
              /\ schema = before

C9_Witness ==
    /\ Len(migLog) = 2
    /\ migLog[1] = UpgradeOk
    /\ migLog[2] = DowngradeOk
    /\ Tables(before) = {"playlists", "Coords"}
    /\ schema = before

PLAYLISTS == << [id |-> 1, name |-> "SQL Rocks!"], [id |-> 2, name |-> "SQLite as well"] >>

\* C10: in aiosqlite_example.main at most one connection is opened; the cursor of
\* the SELECT exists only after the script has created playlists and inserted
\* its two rows, and holds exactly these two rows in insertion order; the
\* connection is closed only after the cursor was closed; no statement runs on
\* the closed connection; and a run that ends without an error has opened one
\* connection, printed the two rows in order and closed the connection once.
C10_AiosqliteRun ==
    /\ aconn.opens <= 1
    /\ aconn.closes <= aconn.opens
    /\ ~alate
    /\ acur.state # "none" => acur.rows = PLAYLISTS
    /\ aconn.closes > 0 => acur.state = "closed"
    /\ apc = "done" =>
          /\ aerr = NoErr
          /\ aconn = [opens |-> 1, closes |-> 1]
          /\ aout = PLAYLISTS
          /\ acur.state = "closed"

C10_Witness ==
    /\ apc = "done"
    /\ aerr = NoErr
    /\ Len(aout) = 2
    /\ aout[2].id = 2
    /\ aconn.closes = 1

====
